---- MODULE Spec2Model ----
(***************************************************************************)
(* Model of the aptitude-test core of SpeakUp:                             *)
(*   backend/services/gemini_client.py    generate_text, _safe_extract_text*)
(*   backend/services/aptitude_service.py shuffle_question_options,        *)
(*                                        get_ai_powered_questions,        *)
(*                                        submit_test                      *)
(*                                                                         *)
(* Python values: None is the empty tuple <<>> and a present value v is    *)
(* <<v>> (Some(v)).  A Python str is a sequence of symbols; a symbol is a  *)
(* character or an indivisible run of characters such as a JSON literal.   *)
(***************************************************************************)
EXTENDS Integers, Sequences, FiniteSets, TLC

None == <<>>
Some(v) == <<v>>

\* ------------------------------------------------------------------------
\* Bounds
\* ------------------------------------------------------------------------
MaxRetriesBound == 3

\* ------------------------------------------------------------------------
\* Program constants
\* ------------------------------------------------------------------------
\* finish_reason codes of the service (gemini_client.py:103-109)
STOP == 1
MAX_TOKENS == 2
SAFETY == 3
FR_OTHER == 5

VARIABLES
    \* generate_text
    api_key,        \* GEMINI_API_KEY is set
    max_retries,    \* argument of generate_text
    attempt,        \* loop variable of `for attempt in range(max_retries)`
    gen_pc,         \* "idle" | "loop" | "done"
    gen_result,     \* return value: None or Some(text)
    requests,       \* number of model.generate_content calls issued
    sleeps,         \* the time.sleep arguments, in order
    log,            \* the responses received, in order
    \* shuffle_question_options
    heap,           \* the list objects: heap[r] is the list behind reference r
    question,       \* the dict passed in: options is a reference into heap
    q_copy,         \* the dict returned: None before the call returns
    correct_text,   \* local of shuffle_question_options: None or Some(text)
    shuf_pc,        \* "idle" | "done" | "raised"
    \* submit_test
    questions,      \* argument: list of question dicts
    answers,        \* argument: list of answers, or legacy dict keyed by id
    timeTaken,      \* argument, in seconds
    sub_pc,         \* "idle" | "done"
    result,         \* the dict returned to the caller: None or Some(dict)
    saved,          \* the AptitudeResult document in the store: None or Some
    \* get_ai_powered_questions
    pipe_pc,        \* "idle" | "generating" | "done"
    content,        \* what generate_text returned: None or Some(text)
    extracted,      \* content[start:end] of line 103: None or Some(text)
    parser_input,   \* the argument of json.loads: None or Some(text)
    parsed,         \* `questions`, the value json.loads returned: None or Some
    pipe_exit,      \* the return statement taken
    pipe_result     \* the list returned

genVars == <<api_key, max_retries, attempt, gen_pc, gen_result, requests, sleeps, log>>
shufVars == <<heap, question, q_copy, correct_text, shuf_pc>>
subVars == <<questions, answers, timeTaken, sub_pc, result, saved>>

pipeVars == <<pipe_pc, content, extracted, parser_input, parsed, pipe_exit, pipe_result>>

vars == <<genVars, shufVars, subVars, pipeVars>>

\* ------------------------------------------------------------------------
\* Strings
\* ------------------------------------------------------------------------
Whitespace == {" ", "\n"}

RECURSIVE LStrip(_)
LStrip(s) == IF s # <<>> /\ Head(s) \in Whitespace THEN LStrip(Tail(s)) ELSE s

RECURSIVE RStrip(_)
RStrip(s) ==
    IF s # <<>> /\ s[Len(s)] \in Whitespace THEN RStrip(SubSeq(s, 1, Len(s) - 1)) ELSE s

\* str.strip()
Strip(s) == RStrip(LStrip(s))

\* The sequences over S of length at most n
SeqsUpTo(S, n) == UNION { [1..k -> S] : k \in 0..n }

RECURSIVE Concat(_)
\* "".join(texts)
Concat(ss) == IF ss = <<>> THEN <<>> ELSE Head(ss) \o Concat(Tail(ss))

\* ------------------------------------------------------------------------
\* The generative text service
\* ------------------------------------------------------------------------
\* A response either raises (transport error) or carries a candidate list.
\* A candidate has a finish_reason and an optional content with parts; a
\* part has an optional text.
Raise == [raise |-> TRUE, candidates |-> <<>>]
Response(cands) == [raise |-> FALSE, candidates |-> cands]
Candidate(fr, c) == [finish_reason |-> fr, content |-> c]

PartsEmptyish == << Some(<<" ">>) >>
PartsAB == << Some(<<"a">>), None, Some(<<"b", " ">>) >>
PartsA == << Some(<<>>), Some(<<" ", "a">>) >>

GenContents == { None, Some(PartsEmptyish), Some(PartsAB), Some(PartsA) }

FinishReasons == {STOP, MAX_TOKENS, SAFETY, FR_OTHER}

GenResponses ==
    {Raise, Response(<<>>)}
    \cup { Response(<<Candidate(fr, c)>>) : fr \in FinishReasons, c \in GenContents }

Truthy(s) == s # <<>>

\* _safe_extract_text(response)
SafeExtractText(response) ==
    IF response.candidates = <<>> THEN <<>>
    ELSE LET cand == response.candidates[1]
             cand_content == cand.content
         IN IF cand_content = None \/ cand_content[1] = <<>> THEN <<>>
            ELSE LET parts == cand_content[1]
                     hasText(p) == p # None /\ Truthy(p[1])
                     texts == [i \in 1..Len(SelectSeq(parts, hasText)) |->
                                  SelectSeq(parts, hasText)[i][1]]
                 IN Strip(Concat(texts))

RECURSIVE Pow2(_)
Pow2(n) == IF n = 0 THEN 1 ELSE 2 * Pow2(n - 1)

\* Backoff that also sleeps after the final attempt.
BackoffAfterEveryAttempt(sl, a, mr) == Append(sl, Pow2(a))

\* `if attempt < max_retries - 1: time.sleep(2 ** attempt)`
Backoff(sl, a, mr) == IF a < mr - 1 THEN Append(sl, Pow2(a)) ELSE sl

\* Outcome with the safety check left out: a blocked candidate's text parts
\* are returned like any other text.
OutcomeNoSafetyCheck(response) ==
    IF response.raise THEN [op |-> "retry", text |-> <<>>]
    ELSE IF response.candidates = <<>> THEN [op |-> "retry", text |-> <<>>]
    ELSE LET extracted_text == SafeExtractText(response)
         IN IF Truthy(extracted_text)
            THEN [op |-> "return", text |-> extracted_text]
            ELSE [op |-> "retry", text |-> <<>>]

\* Outcome that retries every max-tokens truncation, partial text or not.
OutcomeRetryTruncated(response) ==
    IF response.raise THEN [op |-> "retry", text |-> <<>>]
    ELSE IF response.candidates = <<>> THEN [op |-> "retry", text |-> <<>>]
    ELSE LET finish_reason == response.candidates[1].finish_reason
             extracted_text == SafeExtractText(response)
         IN IF finish_reason \in {SAFETY, MAX_TOKENS} THEN [op |-> "retry", text |-> <<>>]
            ELSE IF Truthy(extracted_text)
                 THEN [op |-> "return", text |-> extracted_text]
                 ELSE [op |-> "retry", text |-> <<>>]

\* What one loop iteration does with the response it received:
\* "return" with the text, or "retry" (sleep when attempts remain).
Outcome(response) ==
    IF response.raise THEN [op |-> "retry", text |-> <<>>]
    ELSE IF response.candidates = <<>> THEN [op |-> "retry", text |-> <<>>]
    ELSE LET finish_reason == response.candidates[1].finish_reason
             extracted_text == SafeExtractText(response)
         IN IF finish_reason = SAFETY THEN [op |-> "retry", text |-> <<>>]
            ELSE IF finish_reason = MAX_TOKENS THEN
                     IF Truthy(extracted_text)
                     THEN [op |-> "return", text |-> extracted_text]
                     ELSE [op |-> "retry", text |-> <<>>]
            ELSE IF Truthy(extracted_text)
                 THEN [op |-> "return", text |-> extracted_text]
                 ELSE [op |-> "retry", text |-> <<>>]

\* Call of generate_text(prompt, max_retries = mr)
GenCall(mr) ==
    /\ gen_pc = "idle"
    /\ max_retries' = mr
    /\ attempt' = 0
    /\ IF ~api_key
       THEN gen_pc' = "done" /\ gen_result' = None
       ELSE gen_pc' = "loop" /\ gen_result' = None
    /\ UNCHANGED <<api_key, requests, sleeps, log>>
    /\ UNCHANGED <<shufVars, subVars>>

\* One iteration of the retry loop: one request, then return or back off.
GenAttempt(response) ==
    /\ gen_pc = "loop"
    /\ attempt < max_retries
    /\ requests' = requests + 1
    /\ log' = Append(log, response)
    /\ LET o == Outcome(response)
       IN IF o.op = "return"
          THEN /\ gen_result' = Some(o.text)
               /\ gen_pc' = "done"
               /\ UNCHANGED <<attempt, sleeps>>
          ELSE /\ sleeps' = Backoff(sleeps, attempt, max_retries)
               /\ attempt' = attempt + 1
               /\ UNCHANGED <<gen_result, gen_pc>>
    /\ UNCHANGED <<api_key, max_retries>>
    /\ UNCHANGED <<shufVars, subVars, pipeVars>>

\* The loop ran out of attempts: `return None`
GenExhausted ==
    /\ gen_pc = "loop"
    /\ attempt >= max_retries
    /\ gen_result' = None
    /\ gen_pc' = "done"
    /\ UNCHANGED <<api_key, max_retries, attempt, requests, sleeps, log>>
    /\ UNCHANGED <<shufVars, subVars, pipeVars>>

\* ------------------------------------------------------------------------
\* shuffle_question_options
\* ------------------------------------------------------------------------
\* Every question has 4 options (aptitude_service.py:127)
NumOptions == 4

OptionTexts == {"A", "B", "C", "D"}

\* Option lists of bank questions, duplicates included.
OptionLists == [1..NumOptions -> OptionTexts]

\* list.index(x): the position (0-based) of the first element equal to x
Index(list, x) == (CHOOSE i \in 1..Len(list) :
                      list[i] = x /\ \A j \in 1..(i - 1) : list[j] # x) - 1

\* random.shuffle(list) under the permutation the generator picks
Shuffled(list, perm) == [i \in 1..Len(list) |-> list[perm[i]]]

\* shuffle_question_options that leaves correctAnswer at the index it had
\* before the shuffle.
ShuffleKeepIndex(perm) ==
    /\ shuf_pc = "idle"
    /\ question # <<>>
    /\ LET copy == question
           list == heap[copy.options]
       IN IF copy.correctAnswer >= Len(list)
          THEN /\ shuf_pc' = "raised"
               /\ UNCHANGED <<heap, q_copy, correct_text>>
          ELSE /\ correct_text' = Some(list[copy.correctAnswer + 1])
               /\ heap' = [heap EXCEPT ![copy.options] = Shuffled(list, perm)]
               /\ q_copy' = Some(copy)
               /\ shuf_pc' = "done"
    /\ UNCHANGED <<question, genVars, subVars, pipeVars>>

\* shuffle_question_options(question).  question.copy() is a shallow copy:
\* q_copy['options'] is the list object of question['options'], and
\* random.shuffle reorders that object in place.
ShuffleQuestionOptions(perm) ==
    /\ shuf_pc = "idle"
    /\ question # <<>>
    /\ LET copy == question
           list == heap[copy.options]
       IN IF copy.correctAnswer >= Len(list)
          THEN \* IndexError at line 30
               /\ shuf_pc' = "raised"
               /\ UNCHANGED <<heap, q_copy, correct_text>>
          ELSE LET text == list[copy.correctAnswer + 1]
                   shuffled == Shuffled(list, perm)
               IN /\ correct_text' = Some(text)
                  /\ heap' = [heap EXCEPT ![copy.options] = shuffled]
                  /\ q_copy' = Some([copy EXCEPT !.correctAnswer = Index(shuffled, text)])
                  /\ shuf_pc' = "done"
    /\ UNCHANGED <<question, genVars, subVars, pipeVars>>


\* ------------------------------------------------------------------------
\* submit_test
\* ------------------------------------------------------------------------
\* answers in the list format of the frontend
ListAnswers(items) == [isList |-> TRUE, items |-> items, map |-> <<>>]
\* answers in the legacy dict format, keyed by str(question id)
DictAnswers(map) == [isList |-> FALSE, items |-> <<>>, map |-> map]

\* str(n) for the small integers used as ids and positions
Str(n) == <<"0", "1", "2", "3", "4", "5", "6", "7", "8", "9">>[n + 1]

\* dict.get(key, default)
Get(dict, key, default) == IF key \in DOMAIN dict THEN dict[key] ELSE default

\* round(num / den) of Python 3: to nearest, ties to even
Round(num, den) ==
    LET q == num \div den
        r == num % den
    IN IF 2 * r < den THEN q
       ELSE IF 2 * r > den THEN q + 1
       ELSE IF q % 2 = 0 THEN q ELSE q + 1

\* lines 170-174: the answer given to the question at position idx (0-based)
UserAnswer(ans, q, idx) ==
    IF ans.isList
    THEN IF idx < Len(ans.items) THEN ans.items[idx + 1] ELSE None
    ELSE LET question_id == IF "id" \in DOMAIN q THEN Str(q.id) ELSE Str(idx)
         IN Get(ans.map, question_id, None)

\* Status that counts a missing answer as a wrong one.
StatusNoneIncorrect(user_answer, correct_answer) ==
    IF user_answer # None /\ user_answer[1] = correct_answer THEN "correct"
    ELSE "incorrect"

\* lines 176-188
Status(user_answer, correct_answer) ==
    LET is_correct == IF user_answer # None THEN user_answer[1] = correct_answer
                      ELSE FALSE
    IN IF user_answer = None THEN "unanswered"
       ELSE IF is_correct THEN "correct"
       ELSE "incorrect"

\* Breakdown entry graded against the index the bank question had before
\* it was shuffled.
BreakdownEntryCachedIndex(qs, ans, idx) ==
    LET q == qs[idx + 1]
        user_answer == UserAnswer(ans, q, idx)
        correct_answer == Get(question, "correctAnswer", 0)
    IN [questionNumber |-> idx + 1,
        questionText |-> Get(q, "question", ""),
        options |-> IF "options" \in DOMAIN q THEN heap[q.options] ELSE <<>>,
        correctAnswer |-> correct_answer,
        userAnswer |-> user_answer,
        status |-> Status(user_answer, correct_answer),
        explanation |-> Get(q, "explanation", "")]

\* lines 190-198: the breakdown entry of the question at position idx
BreakdownEntry(qs, ans, idx) ==
    LET q == qs[idx + 1]
        user_answer == UserAnswer(ans, q, idx)
        correct_answer == Get(q, "correctAnswer", 0)
    IN [questionNumber |-> idx + 1,
        questionText |-> Get(q, "question", ""),
        options |-> IF "options" \in DOMAIN q THEN heap[q.options] ELSE <<>>,
        correctAnswer |-> correct_answer,
        userAnswer |-> user_answer,
        status |-> Status(user_answer, correct_answer),
        explanation |-> Get(q, "explanation", "")]

\* lines 168-198: the whole loop
QuestionBreakdown(qs, ans) == [i \in 1..Len(qs) |-> BreakdownEntry(qs, ans, i - 1)]

Count(breakdown, status) ==
    Cardinality({i \in 1..Len(breakdown) : breakdown[i].status = status})

\* lines 209-216: the level stored in the AptitudeResult record
StoredLevel(score_percentage) ==
    IF score_percentage >= 90 THEN "Excellent"
    ELSE IF score_percentage >= 75 THEN "Good"
    ELSE IF score_percentage >= 60 THEN "Average"
    ELSE "Needs Improvement"

\* The returned level taken from the four bands of the stored record.
ReturnedLevelFourBands(score_percentage) ==
    IF score_percentage >= 90 THEN "Excellent"
    ELSE IF score_percentage >= 75 THEN "Good"
    ELSE IF score_percentage >= 60 THEN "Average"
    ELSE "Needs Improvement"

\* lines 261-267: the level in the dict returned to the caller
ReturnedLevel(score_percentage) ==
    IF score_percentage >= 90 THEN "Excellent"
    ELSE IF score_percentage >= 75 THEN "Very Good"
    ELSE IF score_percentage >= 60 THEN "Good"
    ELSE IF score_percentage >= 50 THEN "Average"
    ELSE "Needs Improvement"

\* submit_test(userId, topic, questions, answers, timeTaken); saveOk tells
\* whether the Firestore write succeeds (a failure is printed and swallowed).
SubmitTest(qs, ans, tt, saveOk) ==
    /\ sub_pc = "idle"
    /\ questions' = qs
    /\ answers' = ans
    /\ timeTaken' = tt
    /\ LET question_breakdown == QuestionBreakdown(qs, ans)
           correct_count == Count(question_breakdown, "correct")
           incorrect_count == Count(question_breakdown, "incorrect")
           unanswered_count == Count(question_breakdown, "unanswered")
           total_questions == Len(qs)
           score_percentage == IF total_questions > 0
                               THEN Round(correct_count * 100, total_questions)
                               ELSE 0
           questions_answered == total_questions - unanswered_count
           completion_percentage == IF total_questions > 0
                                    THEN Round(questions_answered * 100, total_questions)
                                    ELSE 0
           record == [id |-> "uuid",
                      score |-> score_percentage,
                      totalQuestions |-> total_questions,
                      accuracy |-> score_percentage,
                      timeTaken |-> tt,
                      correctAnswers |-> correct_count,
                      incorrectAnswers |-> incorrect_count,
                      unansweredQuestions |-> unanswered_count,
                      performanceLevel |-> StoredLevel(score_percentage)]
       IN /\ saved' = IF saveOk THEN Some(record) ELSE None
          /\ result' = Some(
                [id |-> record.id,
                 score |-> score_percentage,
                 totalQuestions |-> total_questions,
                 correctAnswers |-> correct_count,
                 incorrectAnswers |-> incorrect_count,
                 unansweredQuestions |-> unanswered_count,
                 accuracy |-> score_percentage,
                 timeTaken |-> tt,
                 completionMetrics |->
                    [questionsAnswered |-> questions_answered,
                     totalQuestions |-> total_questions,
                     completionPercentage |-> completion_percentage,
                     timeTakenMinutes |-> IF tt > 0 THEN Round(tt, 60) ELSE 0,
                     isFullyCompleted |-> (unanswered_count = 0)],
                 questionBreakdown |-> question_breakdown,
                 performanceLevel |-> ReturnedLevel(score_percentage)])
    /\ sub_pc' = "done"
    /\ UNCHANGED <<genVars, shufVars, pipeVars>>

\* ---- the tests and submissions the scoring engine is run on ----
\* Number of questions of the exhaustively enumerated tests
MaxQuestions == 2
\* Number of questions of the patterned tests (k right, m wrong, rest blank)
MaxPatterned == 20

BankOptions == <<"A", "B", "C", "D">>

\* An answer slot: null, an option index, or an index past the options
AnswerValues == {None, Some(0), Some(2), Some(NumOptions)}

TimesTaken == {0, 150}

\* Question dicts as they come from the bank or the generator: id and
\* correctAnswer may be missing.
ScoredQuestions ==
    LET base == [question |-> "q", options |-> 1, explanation |-> "e"]
    IN { base, base @@ [correctAnswer |-> 2], base @@ [id |-> 2, correctAnswer |-> 2] }

AnswerKeys == {"0", "1", "2"}

SmallSubmissions ==
    { [questions |-> qs, answers |-> ListAnswers(items)] :
         qs \in SeqsUpTo(ScoredQuestions, MaxQuestions),
         items \in SeqsUpTo(AnswerValues, MaxQuestions + 1) }
    \cup
    { [questions |-> qs, answers |-> DictAnswers(m)] :
         qs \in SeqsUpTo(ScoredQuestions, MaxQuestions),
         m \in UNION { [K -> {None, Some(0), Some(2)}] : K \in SUBSET AnswerKeys } }

\* n questions with correct answer 2; the first k slots right, the next m
\* wrong (option 0 or an index past the options), the next u null and the
\* remaining slots missing.
Patterned(n, k, m, u) ==
    [questions |-> [i \in 1..n |->
                      [id |-> i, question |-> "q", options |-> 1, correctAnswer |-> 2]],
     answers |-> ListAnswers([i \in 1..(k + m + u) |->
                      IF i <= k THEN Some(2)
                      ELSE IF i <= k + m
                           THEN (IF i % 2 = 0 THEN Some(0) ELSE Some(NumOptions))
                           ELSE None])]

PatternedSubmissions ==
    LET shapes == { c \in [n : (MaxQuestions + 1)..MaxPatterned, k : 0..MaxPatterned,
                           m : 0..MaxPatterned, u : 0..1] : c.k + c.m + c.u <= c.n }
    IN { Patterned(c.n, c.k, c.m, c.u) : c \in shapes }

Submissions == SmallSubmissions \cup PatternedSubmissions


\* ------------------------------------------------------------------------
\* get_ai_powered_questions: text extraction
\* ------------------------------------------------------------------------
RECURSIVE FindFrom(_, _, _)
FindFrom(s, sym, i) ==
    IF i > Len(s) THEN -1
    ELSE IF s[i] = sym THEN i - 1
    ELSE FindFrom(s, sym, i + 1)

\* str.find(sym): 0-based index of the first occurrence, -1 when absent
Find(s, sym) == FindFrom(s, sym, 1)

RECURSIVE RFindFrom(_, _, _)
RFindFrom(s, sym, i) ==
    IF i < 1 THEN -1
    ELSE IF s[i] = sym THEN i - 1
    ELSE RFindFrom(s, sym, i - 1)

\* rfind that stops at the first occurrence instead of the last
RFindFirst(s, sym) == Find(s, sym)

\* str.rfind(sym): 0-based index of the last occurrence, -1 when absent
RFind(s, sym) == RFindFrom(s, sym, Len(s))

\* s[start:end] for 0 <= start, end <= len(s)
Slice(s, start, end) == SubSeq(s, start + 1, end)

RECURSIVE Replace(_, _)
\* str.replace(pat, ""): occurrences removed left to right, not overlapping
Replace(s, pat) ==
    IF Len(s) < Len(pat) THEN s
    ELSE IF SubSeq(s, 1, Len(pat)) = pat
         THEN Replace(SubSeq(s, Len(pat) + 1, Len(s)), pat)
         ELSE <<Head(s)>> \o Replace(Tail(s), pat)

\* The backquote character of a markdown fence
Backquote == "backquote"
Fence == <<Backquote, Backquote, Backquote>>
FenceJson == <<Backquote, Backquote, Backquote, "json">>

\* line 105
Clean(s) == Strip(Replace(Replace(s, FenceJson), Fence))

\* ------------------------------------------------------------------------
\* get_ai_powered_questions: json.loads
\* ------------------------------------------------------------------------
\* JSON values as Python objects, tagged with their type
JStr(str) == <<"str", str>>
JNum(n) == <<"num", n>>
JNull == <<"null">>
JList(items) == <<"list", items>>
JDict(fields) == <<"dict", fields>>

TypeOf(v) == v[1]

\* The string literals and number literals of the texts
StrLits == {"\"question\"", "\"options\"", "\"correctAnswer\"", "\"explanation\"",
            "\"q\"", "\"r\"", "\"\"", "\"e\"", "\"A\"", "\"B\"", "\"C\"", "\"D\""}
NumLits == {"0", "1", "2", "3", "7"}

StrValue(sym) ==
    CASE sym = "\"question\"" -> "question"
      [] sym = "\"options\"" -> "options"
      [] sym = "\"correctAnswer\"" -> "correctAnswer"
      [] sym = "\"explanation\"" -> "explanation"
      [] sym = "\"q\"" -> "q"
      [] sym = "\"r\"" -> "r"
      [] sym = "\"\"" -> ""
      [] sym = "\"e\"" -> "e"
      [] sym = "\"A\"" -> "A"
      [] sym = "\"B\"" -> "B"
      [] sym = "\"C\"" -> "C"
      [] sym = "\"D\"" -> "D"

NumValue(sym) ==
    CASE sym = "0" -> 0 [] sym = "1" -> 1 [] sym = "2" -> 2
      [] sym = "3" -> 3 [] sym = "7" -> 7

RECURSIVE SkipWs(_, _)
SkipWs(s, i) == IF i <= Len(s) /\ s[i] \in Whitespace THEN SkipWs(s, i + 1) ELSE i

ParseFail == [ok |-> FALSE, val |-> JNull, pos |-> 0]
ParseOk(v, next) == [ok |-> TRUE, val |-> v, pos |-> next]

\* dict[key] = v
Put(fields, key, v) ==
    [k \in (DOMAIN fields) \cup {key} |-> IF k = key THEN v ELSE fields[k]]

RECURSIVE ParseValue(_, _), ParseElements(_, _, _), ParseMembers(_, _, _)

\* A JSON value starting at position i (whitespace already skipped)
ParseValue(s, i) ==
    IF i > Len(s) THEN ParseFail
    ELSE IF s[i] = "[" THEN
        LET j == SkipWs(s, i + 1)
        IN IF j <= Len(s) /\ s[j] = "]" THEN ParseOk(JList(<<>>), j + 1)
           ELSE ParseElements(s, j, <<>>)
    ELSE IF s[i] = "{" THEN
        LET j == SkipWs(s, i + 1)
        IN IF j <= Len(s) /\ s[j] = "}" THEN ParseOk(JDict(<<>>), j + 1)
           ELSE ParseMembers(s, j, <<>>)
    ELSE IF s[i] \in StrLits THEN ParseOk(JStr(StrValue(s[i])), i + 1)
    ELSE IF s[i] \in NumLits THEN ParseOk(JNum(NumValue(s[i])), i + 1)
    ELSE IF s[i] = "null" THEN ParseOk(JNull, i + 1)
    ELSE ParseFail

\* The elements of an array from position i, up to the closing bracket
ParseElements(s, i, acc) ==
    LET r == ParseValue(s, i)
        j == SkipWs(s, r.pos)
    IN IF ~r.ok \/ j > Len(s) THEN ParseFail
       ELSE IF s[j] = "," THEN ParseElements(s, SkipWs(s, j + 1), Append(acc, r.val))
       ELSE IF s[j] = "]" THEN ParseOk(JList(Append(acc, r.val)), j + 1)
       ELSE ParseFail

\* The members of an object from position i, up to the closing brace;
\* a repeated key keeps its last value
ParseMembers(s, i, acc) ==
    IF i > Len(s) \/ s[i] \notin StrLits THEN ParseFail
    ELSE LET c == SkipWs(s, i + 1)
         IN IF c > Len(s) \/ s[c] # ":" THEN ParseFail
            ELSE LET r == ParseValue(s, SkipWs(s, c + 1))
                     j == SkipWs(s, r.pos)
                     fields == Put(acc, StrValue(s[i]), r.val)
                 IN IF ~r.ok \/ j > Len(s) THEN ParseFail
                    ELSE IF s[j] = "," THEN ParseMembers(s, SkipWs(s, j + 1), fields)
                    ELSE IF s[j] = "}" THEN ParseOk(JDict(fields), j + 1)
                    ELSE ParseFail

\* json.loads(s): Some(value), or None for json.JSONDecodeError
JsonLoads(s) ==
    LET r == ParseValue(s, SkipWs(s, 1))
    IN IF r.ok /\ SkipWs(s, r.pos) > Len(s) THEN Some(r.val) ELSE None

\* ------------------------------------------------------------------------
\* get_ai_powered_questions: validation
\* ------------------------------------------------------------------------
\* The number of questions a batch must have (aptitude_service.py:138)
RequiredCount == 3

\* lines 123-127
IsValidItem(q) ==
    /\ TypeOf(q) = "dict"
    /\ "question" \in DOMAIN q[2]
    /\ "options" \in DOMAIN q[2]
    /\ TypeOf(q[2]["options"]) = "list"
    /\ Len(q[2]["options"][2]) = NumOptions

\* lines 128-133: the item with its id and the defaults of missing fields
WithDefaults(q, i) ==
    LET q1 == Put(q[2], "id", JNum(i + 1))
        q2 == IF "correctAnswer" \notin DOMAIN q1
              THEN Put(q1, "correctAnswer", JNum(0)) ELSE q1
        q3 == IF "explanation" \notin DOMAIN q2
              THEN Put(q2, "explanation", JStr("Answer explanation")) ELSE q2
    IN JDict(q3)

\* line 134: q['question'][:60] raises TypeError unless the value can be
\* sliced (a str or a list)
PrintRaises(q) == TypeOf(q[2]["question"]) \notin {"str", "list"}

RECURSIVE ValidateItemsSequentialIds(_, _, _)
\* The loop with ids counted over the valid items only
ValidateItemsSequentialIds(items, i, valid_questions) ==
    IF i >= Len(items) THEN [raised |-> FALSE, valid |-> valid_questions]
    ELSE LET q == items[i + 1]
         IN IF IsValidItem(q)
            THEN IF PrintRaises(q)
                 THEN [raised |-> TRUE, valid |-> <<>>]
                 ELSE ValidateItemsSequentialIds(items, i + 1,
                         Append(valid_questions, WithDefaults(q, Len(valid_questions))))
            ELSE ValidateItemsSequentialIds(items, i + 1, valid_questions)

RECURSIVE ValidateItems(_, _, _)
\* lines 121-136: the loop from position i (0-based) with the valid items
\* collected so far; raised tells that an exception left the loop
ValidateItems(items, i, valid_questions) ==
    IF i >= Len(items) THEN [raised |-> FALSE, valid |-> valid_questions]
    ELSE LET q == items[i + 1]
         IN IF IsValidItem(q)
            THEN IF PrintRaises(q)
                 THEN [raised |-> TRUE, valid |-> <<>>]
                 ELSE ValidateItems(items, i + 1,
                                    Append(valid_questions, WithDefaults(q, i)))
            ELSE ValidateItems(items, i + 1, valid_questions)

\* list[:n]
Take(list, n) == SubSeq(list, 1, IF Len(list) < n THEN Len(list) ELSE n)

\* get_ai_powered_questions(topic), line 86: the call of generate_text with
\* the default max_retries
DefaultMaxRetries == 3

PipeCall ==
    /\ pipe_pc = "idle"
    /\ GenCall(DefaultMaxRetries)
    /\ pipe_pc' = "generating"
    /\ UNCHANGED <<content, extracted, parser_input, parsed, pipe_exit, pipe_result>>

\* What lines 88-154 do with the text that generate_text returned
Processed(text) ==
    LET fail(exit, ex, pin, pv) ==
            [exit |-> exit, extracted |-> ex, parser_input |-> pin,
             parsed |-> pv, result |-> <<>>]
    IN IF text = None \/ ~Truthy(text[1]) THEN fail("no_response", None, None, None)
       ELSE LET start == Find(text[1], "[")
                end == RFind(text[1], "]") + 1
            IN IF start = -1 \/ end <= start THEN fail("no_array", None, None, None)
               ELSE LET slice == Slice(text[1], start, end)
                        cleaned == Clean(slice)
                        loaded == JsonLoads(cleaned)
                    IN IF loaded = None
                       THEN fail("json_error", Some(slice), Some(cleaned), None)
                       ELSE IF TypeOf(loaded[1]) # "list"
                       THEN fail("not_list", Some(slice), Some(cleaned), loaded)
                       ELSE IF Len(loaded[1][2]) = 0
                       THEN fail("empty", Some(slice), Some(cleaned), loaded)
                       ELSE LET v == ValidateItems(loaded[1][2], 0, <<>>)
                            IN IF v.raised
                               THEN fail("exception", Some(slice), Some(cleaned), loaded)
                               ELSE IF Len(v.valid) < RequiredCount
                               THEN fail("insufficient", Some(slice), Some(cleaned), loaded)
                               ELSE [exit |-> "ok", extracted |-> Some(slice),
                                     parser_input |-> Some(cleaned), parsed |-> loaded,
                                     result |-> Take(v.valid, RequiredCount)]

\* get_ai_powered_questions, lines 88-154, once generate_text has returned
PipeProcess ==
    /\ pipe_pc = "generating"
    /\ gen_pc = "done"
    /\ content' = gen_result
    /\ LET p == Processed(gen_result)
       IN /\ extracted' = p.extracted
          /\ parser_input' = p.parser_input
          /\ parsed' = p.parsed
          /\ pipe_exit' = p.exit
          /\ pipe_result' = p.result
    /\ pipe_pc' = "done"
    /\ UNCHANGED <<genVars, shufVars, subVars>>

\* ---- the texts the service answers the question prompt with ----
\* Length of the arrays enumerated over every kind of item
MaxItems == 3
\* Length of the longer arrays, made of complete and option-less items
MaxLongItems == 5
\* Length of the texts enumerated over brackets and prose
MaxBracketText == 3

OptionsMember ==
    <<"\"options\"", ":", "[", "\"A\"", ",", "\"B\"", ",", "\"C\"", ",", "\"D\"", "]">>

\* {"question": "q", "options": [...], "correctAnswer": 1, "explanation": "e"}
ItemComplete ==
    <<"{", "\"question\"", ":", "\"q\"", ",">> \o OptionsMember
    \o <<",", "\"correctAnswer\"", ":", "1", ",", "\"explanation\"", ":", "\"e\"", "}">>
\* {"question": "r", "options": [...]}
ItemDefaults == <<"{", "\"question\"", ":", "\"r\"", ",">> \o OptionsMember \o <<"}">>
\* {"question": "", "options": [...], "correctAnswer": 0}
ItemEmptyText ==
    <<"{", "\"question\"", ":", "\"\"", ",">> \o OptionsMember
    \o <<",", "\"correctAnswer\"", ":", "0", "}">>
\* {"question": 7, "options": [...]}
ItemNumberText == <<"{", "\"question\"", ":", "7", ",">> \o OptionsMember \o <<"}">>
\* {"question": "q", "correctAnswer": 1}
ItemNoOptions ==
    <<"{", "\"question\"", ":", "\"q\"", ",", "\"correctAnswer\"", ":", "1", "}">>
\* 7
ItemScalar == <<"7">>
\* {"question": "q", "options": [...], "correctAnswer": 7}
ItemBadIndex ==
    <<"{", "\"question\"", ":", "\"q\"", ",">> \o OptionsMember
    \o <<",", "\"correctAnswer\"", ":", "7", "}">>

ItemKinds == {ItemComplete, ItemDefaults, ItemEmptyText, ItemNumberText,
              ItemNoOptions, ItemScalar, ItemBadIndex}

LongItemKinds == {ItemComplete, ItemDefaults, ItemNoOptions}

RECURSIVE JoinComma(_)
JoinComma(items) ==
    IF items = <<>> THEN <<>>
    ELSE IF Len(items) = 1 THEN items[1]
    ELSE items[1] \o <<",", " ">> \o JoinComma(Tail(items))

\* The JSON text of an array of items
ArrayText(items) == <<"[">> \o JoinComma(items) \o <<"]">>

ArrayTexts ==
    { ArrayText(a) : a \in SeqsUpTo(ItemKinds, MaxItems) }
    \cup { ArrayText(a) :
             a \in UNION { [1..k -> LongItemKinds] : k \in (MaxItems + 1)..MaxLongItems } }

\* Brackets and prose in every order
BracketTexts == SeqsUpTo({"[", "]", "x"}, MaxBracketText) \ {<<>>}

SampleItems == <<ItemComplete, ItemDefaults, ItemComplete>>
SampleText == ArrayText(SampleItems)

\* The sample array inside prose and markdown fences, and cut short by the
\* token limit
WrappedTexts ==
    { <<"x", " ">> \o SampleText \o <<" ", "x">>,
      FenceJson \o <<"\n">> \o SampleText \o <<"\n">> \o Fence,
      <<"[">> \o FenceJson \o JoinComma(SampleItems) \o Fence \o <<"]">>,
      SampleText \o <<" ", "x", "]">>,
      <<"[", "x", "]", " ">> \o SampleText,
      <<"x", "]", " ">> \o SampleText \o <<"[">> }
    \cup { SubSeq(SampleText, 1, k) : k \in 1..Len(SampleText) }

PipeTexts == ArrayTexts \cup BracketTexts \cup WrappedTexts

\* The answers of the service to the question prompt
PipeResponses ==
    { Raise, Response(<<Candidate(SAFETY, Some(<<Some(SampleText)>>))>>) }
    \cup { Response(<<Candidate(fr, Some(<<Some(t)>>))>>) :
             fr \in {STOP, MAX_TOKENS}, t \in PipeTexts }

\* ------------------------------------------------------------------------
\* Specifications
\* ------------------------------------------------------------------------
\* No call of generate_text is in progress.
GenIdle ==
    /\ max_retries = 0
    /\ attempt = 0
    /\ gen_pc = "idle"
    /\ gen_result = None
    /\ requests = 0
    /\ sleeps = <<>>
    /\ log = <<>>

\* No call of shuffle_question_options is in progress.
ShufIdle ==
    /\ q_copy = None
    /\ correct_text = None
    /\ shuf_pc = "idle"

\* No call of submit_test is in progress.
SubIdle ==
    /\ questions = <<>>
    /\ answers = ListAnswers(<<>>)
    /\ timeTaken = 0
    /\ sub_pc = "idle"
    /\ result = None
    /\ saved = None

\* No call of get_ai_powered_questions is in progress.
PipeIdle ==
    /\ pipe_pc = "idle"
    /\ content = None
    /\ extracted = None
    /\ parser_input = None
    /\ parsed = None
    /\ pipe_exit = "none"
    /\ pipe_result = <<>>

\* The generation client on its own, called with any max_retries.
GenInit ==
    /\ api_key \in BOOLEAN
    /\ GenIdle
    /\ ShufIdle /\ heap = <<>> /\ question = <<>>
    /\ SubIdle
    /\ PipeIdle

GenNext ==
    \/ \E mr \in 0..MaxRetriesBound : GenCall(mr) /\ UNCHANGED pipeVars
    \/ /\ gen_pc = "loop" /\ attempt < max_retries
       /\ \E r \in GenResponses : GenAttempt(r)
    \/ GenExhausted

SpecGen == GenInit /\ [][GenNext]_vars

\* The calls are synchronous: a started call keeps running until it returns.
SpecGenFair == SpecGen /\ WF_vars(GenNext)

\* The answers a user can give to one presented question
ShuffleAnswers == {None} \cup { Some(j) : j \in 0..NumOptions }

\* A bank question is shuffled for presentation and the user's answer to
\* the shuffled question is graded.
ShufInit ==
    /\ api_key = TRUE /\ GenIdle
    /\ \E opts \in OptionLists, ca \in 0..NumOptions :
          /\ heap = <<opts>>
          /\ question = [question |-> "q", options |-> 1, correctAnswer |-> ca]
    /\ ShufIdle
    /\ SubIdle
    /\ PipeIdle

ShufNext ==
    \/ /\ shuf_pc = "idle"
       /\ \E perm \in Permutations(1..NumOptions) : ShuffleQuestionOptions(perm)
    \/ /\ shuf_pc = "done" /\ sub_pc = "idle"
       /\ \E a \in ShuffleAnswers, ok \in BOOLEAN :
             SubmitTest(<<q_copy[1]>>, ListAnswers(<<a>>), 0, ok)

SpecShuffle == ShufInit /\ [][ShufNext]_vars

\* The scoring engine on its own, called with any test and submission.
SubInit ==
    /\ api_key = TRUE /\ GenIdle
    /\ heap = <<BankOptions>> /\ question = <<>> /\ ShufIdle
    /\ SubIdle
    /\ PipeIdle

SubNext ==
    /\ sub_pc = "idle"
    /\ \E t \in Submissions, tt \in TimesTaken, ok \in BOOLEAN :
          SubmitTest(t.questions, t.answers, tt, ok)

SpecSubmit == SubInit /\ [][SubNext]_vars

\* The question generation pipeline against every answer of the service.
PipeInit ==
    /\ api_key \in BOOLEAN
    /\ GenIdle
    /\ ShufIdle /\ heap = <<>> /\ question = <<>>
    /\ SubIdle
    /\ PipeIdle

PipeNext ==
    \/ PipeCall
    \/ /\ gen_pc = "loop" /\ attempt < max_retries
       /\ \E r \in PipeResponses : GenAttempt(r)
    \/ GenExhausted
    \/ PipeProcess

SpecPipe == PipeInit /\ [][PipeNext]_vars


\* ========================================================================
\* Claims
\* ========================================================================

\* The text the retry policy accepts: a candidate that is not safety-blocked
\* and whose extracted text is not empty.
Accepted(r) ==
    /\ ~r.raise
    /\ r.candidates # <<>>
    /\ r.candidates[1].finish_reason # SAFETY
    /\ SafeExtractText(r) # <<>>

\* C1: with an API key configured, a call to generate_text terminates,
\* issues at most max_retries requests, and returns None exactly when none
\* of the responses it received carried text the policy accepts.
C1_GenerateBounded ==
    /\ [](api_key =>
            /\ requests <= max_retries
            /\ (gen_pc = "done" =>
                   (gen_result = None <=> \A i \in 1..Len(log) : ~Accepted(log[i]))))
    /\ (gen_pc = "loop" ~> gen_pc = "done")

C1_Witness ==
    /\ api_key /\ gen_pc = "done" /\ max_retries >= 2
    /\ requests = max_retries /\ gen_result = None

\* A normal completion or a max-tokens truncation, with non-empty text.
Usable(r) ==
    /\ ~r.raise
    /\ r.candidates # <<>>
    /\ r.candidates[1].finish_reason \in {STOP, MAX_TOKENS}
    /\ SafeExtractText(r) # <<>>

\* C2: the attempt that receives a normal completion with text, or a
\* max-tokens truncation with partial text, returns that text without a
\* backoff sleep, and after the return no request and no sleep happens.
C2_FirstUsableReturns ==
    [][ /\ (Len(log') = Len(log) + 1 /\ Usable(log'[Len(log')])) =>
             /\ gen_pc' = "done"
             /\ gen_result' = Some(SafeExtractText(log'[Len(log')]))
             /\ sleeps' = sleeps
        /\ gen_pc = "done" =>
             /\ requests' = requests /\ sleeps' = sleeps
             /\ log' = log /\ gen_result' = gen_result ]_vars

C2_Witness ==
    /\ gen_pc = "done" /\ gen_result # None /\ requests = 1 /\ max_retries >= 3
    /\ log[1].candidates[1].finish_reason = MAX_TOKENS
    /\ sleeps = <<>>

\* The step in which shuffle_question_options runs and returns.
ShuffleStep == shuf_pc = "idle" /\ shuf_pc' = "done"

Distinct(list) == \A i, j \in 1..Len(list) : list[i] = list[j] => i = j

Occurrences(list, x) == Cardinality({i \in 1..Len(list) : list[i] = x})

IsPermutationOf(a, b) ==
    /\ Len(a) = Len(b)
    /\ \A x \in OptionTexts : Occurrences(a, x) = Occurrences(b, x)

\* C5: a call of shuffle_question_options leaves the question it was given
\* unchanged: same options in the same order, and correctAnswer indexing the
\* same option text as before the call.
C5_InputUnchanged ==
    [][ ShuffleStep =>
          /\ question' = question
          /\ heap'[question'.options] = heap[question.options]
          /\ heap'[question'.options][question'.correctAnswer + 1]
                = heap[question.options][question.correctAnswer + 1] ]_vars

\* C6: for 4 distinct options and correctAnswer in [0,4), under every
\* permutation, the returned question's options are a permutation of the
\* options read at the call and its correctAnswer indexes the option text
\* that the input's correctAnswer indexed at the call.
C6_ShufflePreservesCorrect ==
    [][ ( /\ ShuffleStep
          /\ Distinct(heap[question.options])
          /\ question.correctAnswer \in 0..(NumOptions - 1) ) =>
          LET before == heap[question.options]
              after == heap'[q_copy'[1].options]
          IN /\ IsPermutationOf(after, before)
             /\ q_copy'[1].correctAnswer \in 0..(NumOptions - 1)
             /\ after[q_copy'[1].correctAnswer + 1]
                   = before[question.correctAnswer + 1] ]_vars

C6_Witness ==
    /\ shuf_pc = "done"
    /\ Distinct(heap[1])
    /\ q_copy[1].correctAnswer # question.correctAnswer

\* The correctAnswer a question carries (0 when the field is missing).
CorrectAnswerOf(q) == IF "correctAnswer" \in DOMAIN q THEN q.correctAnswer ELSE 0

\* The slot of a list submission for position i (1-based), None when the
\* list is too short.
SlotOf(items, i) == IF i <= Len(items) THEN items[i] ELSE None

\* C7: every question gets exactly one status and is counted in exactly one
\* tally: unanswered iff its answer is None (for a list: null slot or no
\* slot), correct iff the answer is not None and equals the question's
\* correctAnswer, incorrect otherwise (an out-of-range index included);
\* the three counts add up to totalQuestions and the breakdown has one
\* entry per question, in order, numbered from 1.
C7_OneStatusPerQuestion ==
    sub_pc = "done" =>
      LET r == result[1]
          bd == r.questionBreakdown
          n == Len(questions)
          With(st) == {i \in 1..n : bd[i].status = st}
      IN /\ r.totalQuestions = n
         /\ Len(bd) = n
         /\ \A i \in 1..n :
               /\ bd[i].questionNumber = i
               /\ bd[i].questionText = questions[i].question
               /\ answers.isList => bd[i].userAnswer = SlotOf(answers.items, i)
               /\ bd[i].status \in {"correct", "incorrect", "unanswered"}
               /\ bd[i].status = "unanswered" <=> bd[i].userAnswer = None
               /\ bd[i].status = "correct" <=>
                     /\ bd[i].userAnswer # None
                     /\ bd[i].userAnswer[1] = CorrectAnswerOf(questions[i])
         /\ r.correctAnswers = Cardinality(With("correct"))
         /\ r.incorrectAnswers = Cardinality(With("incorrect"))
         /\ r.unansweredQuestions = Cardinality(With("unanswered"))
         /\ r.correctAnswers + r.incorrectAnswers + r.unansweredQuestions = n

C7_Witness ==
    /\ sub_pc = "done" /\ answers.isList
    /\ Len(answers.items) < Len(questions)
    /\ result[1].correctAnswers >= 1 /\ result[1].unansweredQuestions >= 2
    /\ \E i \in 1..Len(questions) :
          /\ result[1].questionBreakdown[i].status = "incorrect"
          /\ result[1].questionBreakdown[i].userAnswer = Some(NumOptions)

\* C8: the returned performanceLevel is the band of scorePercent:
\* Excellent 90..100, Very Good 75..89, Good 60..74, Average 50..59,
\* Needs Improvement 0..49; no questions gives score 0, Needs Improvement.
C8_LevelBands ==
    sub_pc = "done" =>
      LET score == result[1].score
          level == result[1].performanceLevel
      IN /\ score \in 0..100
         /\ score \in 90..100 => level = "Excellent"
         /\ score \in 75..89 => level = "Very Good"
         /\ score \in 60..74 => level = "Good"
         /\ score \in 50..59 => level = "Average"
         /\ score \in 0..49 => level = "Needs Improvement"
         /\ questions = <<>> => score = 0 /\ level = "Needs Improvement"

C8_Witness ==
    /\ sub_pc = "done"
    /\ result[1].score = 75
    /\ result[1].performanceLevel = "Very Good"

\* C10: when the answer j is submitted for the shuffled copy of a question
\* with distinct options, it is graded correct exactly when option j of the
\* shuffled copy is the text that was correct before the shuffle.
C10_ShuffleThenScore ==
    (shuf_pc = "done" /\ sub_pc = "done" /\ Distinct(heap[q_copy[1].options])) =>
      LET shown == heap[q_copy[1].options]
          a == answers.items[1]
          entry == result[1].questionBreakdown[1]
      IN /\ questions = <<q_copy[1]>>
         /\ entry.status = "correct" <=>
               /\ a # None
               /\ a[1] < Len(shown)
               /\ shown[a[1] + 1] = correct_text[1]

C10_Witness ==
    /\ shuf_pc = "done" /\ sub_pc = "done" /\ Distinct(heap[1])
    /\ q_copy[1].correctAnswer # question.correctAnswer
    /\ result[1].questionBreakdown[1].status = "correct"

\* The structural rules of the validator: a record with a question field
\* and an options field that is a list of 4 elements.
StructurallyValid(q) ==
    /\ q[1] = "dict"
    /\ {"question", "options"} \subseteq DOMAIN q[2]
    /\ q[2]["options"][1] = "list"
    /\ Len(q[2]["options"][2]) = NumOptions

\* The items of the parsed array (none when nothing was parsed).
ParsedItems == IF parsed # None /\ parsed[1][1] = "list" THEN parsed[1][2] ELSE <<>>

ValidPositions(items) == {i \in 1..Len(items) : StructurallyValid(items[i])}

\* The position in the array of the k-th valid item.
NthValid(items, k) ==
    CHOOSE i \in ValidPositions(items) :
        Cardinality({j \in ValidPositions(items) : j <= i}) = k

\* The returned question r is the array item q: every field of q but id is
\* kept, and the only fields added are id, correctAnswer and explanation.
SameItem(r, q) ==
    /\ DOMAIN r[2] = (DOMAIN q[2]) \cup {"id", "correctAnswer", "explanation"}
    /\ \A f \in (DOMAIN q[2]) \ {"id"} : r[2][f] = q[2][f]

C4_AllOrNothing ==
    pipe_pc = "done" =>
        LET nvalid == Cardinality(ValidPositions(ParsedItems))
        IN /\ pipe_result = <<>> \/ Len(pipe_result) = RequiredCount
           /\ nvalid < RequiredCount => pipe_result = <<>>
           /\ nvalid >= RequiredCount =>
                 /\ Len(pipe_result) = RequiredCount
                 /\ \A k \in 1..RequiredCount :
                       SameItem(pipe_result[k], ParsedItems[NthValid(ParsedItems, k)])

Min(S) == CHOOSE x \in S : \A y \in S : x <= y
Max(S) == CHOOSE x \in S : \A y \in S : x >= y

\* C9: the extraction takes the text from the first '[' to the last ']',
\* both inclusive; it reports no array, and nothing is parsed, exactly when
\* there is no '[', no ']', or the last ']' lies before the first '['; the
\* parser gets the cleaned slice and nothing from outside it.
C9_ExtractSlice ==
    (pipe_pc = "done" /\ content # None) =>
        LET text == content[1]
            opens == {i \in 1..Len(text) : text[i] = "["}
            closes == {i \in 1..Len(text) : text[i] = "]"}
            noArray == opens = {} \/ closes = {} \/ Max(closes) < Min(opens)
        IN /\ noArray <=> pipe_exit = "no_array"
           /\ noArray <=> parser_input = None
           /\ noArray => extracted = None /\ parsed = None /\ pipe_result = <<>>
           /\ ~noArray =>
                 /\ extracted = Some(SubSeq(text, Min(opens), Max(closes)))
                 /\ parser_input = Some(Clean(SubSeq(text, Min(opens), Max(closes))))

C9_Witness ==
    /\ pipe_pc = "done" /\ content # None /\ pipe_exit = "ok"
    /\ Head(content[1]) = "x"
    /\ content[1][Len(content[1])] = "["
    /\ Len(extracted[1]) = Len(content[1]) - 4

\* C11: an item whose question text is empty is dropped: no returned
\* question has an empty question text, and such an item does not count
\* towards the 3 required valid items.
C11_NoEmptyQuestionText ==
    pipe_pc = "done" =>
        LET nonEmpty == {i \in ValidPositions(ParsedItems) :
                            ParsedItems[i][2]["question"] # JStr("")}
        IN /\ \A k \in 1..Len(pipe_result) : pipe_result[k][2]["question"] # JStr("")
           /\ Cardinality(nonEmpty) < RequiredCount => pipe_result = <<>>

\* An attempt that ends as no-candidates, safety-blocked (with or without
\* text parts), empty text, max-tokens with no text, or a raised error.
Retryable(r) ==
    \/ r.raise
    \/ r.candidates = <<>>
    \/ r.candidates[1].finish_reason = SAFETY
    \/ SafeExtractText(r) = <<>>

\* C12: an attempt a (0-based) that ends retryable returns nothing; when
\* a < max_retries - 1 the client sleeps exactly 2^a and the next request
\* is issued; no sleep follows the final attempt, so a call that fails on
\* every attempt has slept max_retries - 1 times, with delays 1, 2, 4, ...
C12_BackoffSchedule ==
    /\ [][ (Len(log') = Len(log) + 1 /\ Retryable(log'[Len(log')])) =>
             /\ gen_result' = None
             /\ gen_pc' = "loop"
             /\ attempt' = attempt + 1
             /\ attempt < max_retries - 1 =>
                   /\ sleeps' = Append(sleeps, 2^attempt)
                   /\ attempt' < max_retries
             /\ attempt >= max_retries - 1 => sleeps' = sleeps ]_vars
    /\ [](\A i \in 1..Len(sleeps) : sleeps[i] = 2^(i - 1))
    /\ []((api_key /\ gen_pc = "done" /\ gen_result = None) =>
            /\ requests = max_retries
            /\ Len(sleeps) = (IF max_retries = 0 THEN 0 ELSE max_retries - 1))
    /\ \A n \in 0..MaxRetriesBound :
          (gen_pc = "loop" /\ attempt < max_retries /\ requests = n)
              ~> (requests = n + 1)

C12_Witness ==
    /\ gen_pc = "done" /\ gen_result = None /\ max_retries = 3
    /\ sleeps = <<1, 2>>
    /\ log[1].candidates # <<>>
    /\ log[1].candidates[1].finish_reason = SAFETY
    /\ SafeExtractText(log[1]) # <<>>
    /\ log[3].raise

\* C13: every returned question has a correctAnswer that is an integer in
\* [0,4), indexing one of its 4 options; it is 0 when the generated item
\* had no correctAnswer field.
C13_CorrectAnswerInRange ==
    pipe_pc = "done" =>
        \A k \in 1..Len(pipe_result) :
            LET q == pipe_result[k][2]
                source == ParsedItems[q["id"][2]][2]
            IN /\ q["correctAnswer"][1] = "num"
               /\ q["correctAnswer"][2] \in 0..(Len(q["options"][2]) - 1)
               /\ "correctAnswer" \notin DOMAIN source => q["correctAnswer"] = JNum(0)

\* C14: the performanceLevel of the AptitudeResult record handed to the
\* store is the performanceLevel of the result returned to the caller.
C14_StoredLevelIsReturnedLevel ==
    (sub_pc = "done" /\ saved # None) =>
        saved[1].performanceLevel = result[1].performanceLevel

====
